---- MODULE Spec2Model ----
(***************************************************************************)
(* A model of sigmaepsilon/plotting/mpl/parallel.py: the two plotting      *)
(* functions parallel() and aligned_parallel(), the latter with its        *)
(* interactive read-out (the slider and the closures _set_yval,            *)
(* _approx_at_y, _set_xlim, _set_ylim).                                    *)
(*                                                                         *)
(* Each function is a sequential program; pc is its position.  A step of   *)
(* the model is a block of consecutive statements, and an exception ends   *)
(* the call in pc = "raised" with err naming the exception.                *)
(*                                                                         *)
(* Real numbers (numpy float64) are modelled by exact rationals <<n, d>>,  *)
(* d > 0, in lowest terms.  A numpy array of integer dtype is modelled by  *)
(* rationals of denominator 1 together with a dtype flag, because numpy    *)
(* truncates or refuses what is stored into an integer array.              *)
(***************************************************************************)
EXTENDS Integers, Sequences, FiniteSets, TLC

VARIABLES
    pc,        \* position in the running function
    err,       \* the exception raised, "" when none
    figs,      \* number of figure objects created through pyplot
    data,      \* the data argument as the function holds it
    labels,    \* the labels (parallel: ynames)
    \* ---- parallel() ----
    padding,   \* argument padding: [val |-> rational, isFloat |-> BOOLEAN]
    bezier,    \* argument bezier
    colors,    \* argument colors is not None (one colour per record)
    ys,        \* N x M matrix of the records (sequence of rows)
    intDtype,  \* TRUE when ys (and so zs) has an integer dtype
    ranges,    \* per column <<rmin, rmax>>; after line 118 the padded ranges
    rangesInt, \* TRUE when the array ranges has an integer dtype
    dataRange, \* per column <<min, max>> of the data (lines 101-102), <<>> with explicit ranges
    dys,       \* per column span of the padded range (line 120)
    zs,        \* the rescaled matrix
    j,         \* loop index of the record loop (line 146)
    patches,   \* what was drawn for each record: [verts, codes]
    \* ---- aligned_parallel() ----
    yticksGiven, \* argument yticks is not None
    sharelimits, \* argument sharelimits
    slider,      \* argument slider
    yArg,        \* argument y: <<>> for None, else <<value>>
    xoffset,     \* argument xoffset
    datapos,     \* argument datapos
    ymin, ymax,  \* line 258
    y0,          \* lines 259-262
    plotdata,    \* the panels in insertion order (the LinkedDeepDict)
    vmin, vmax,  \* lines 291-292
    sliderVal,   \* slider_.val: <<>> when there is no slider, else <<value>>
    yq,          \* the argument y of the running or last _set_yval
    upd          \* number of panels the running _set_yval has updated

pvars == <<padding, bezier, colors, ys, intDtype, ranges, rangesInt, dataRange, dys, zs, j, patches>>
avars == <<yticksGiven, sharelimits, slider, yArg, xoffset, datapos, ymin, ymax, y0,
           plotdata, vmin, vmax, sliderVal, yq, upd>>
cvars == <<pc, err, figs, data, labels>>
vars == <<cvars, pvars, avars>>

\* ------------------------------------------------------------------ bounds
\* data values and positions are 0 .. MaxVal
MaxVal == 1
\* values per column
MaxRecs == 2
\* columns per data argument
MaxCols == 3
\* values per data argument
MaxCells == 4

\* ------------------------------------------------------- rational numbers
Abs(x) == IF x < 0 THEN -x ELSE x

RECURSIVE GCD(_, _)
GCD(a, b) == IF b = 0 THEN a ELSE GCD(b, a % b)

Norm(n, d) ==
    LET s == IF d < 0 THEN -1 ELSE 1
        g == GCD(Abs(n), Abs(d))
    IN  <<(s * n) \div g, (s * d) \div g>>

R(i) == <<i, 1>>
RAdd(a, b) == Norm(a[1] * b[2] + b[1] * a[2], a[2] * b[2])
RSub(a, b) == Norm(a[1] * b[2] - b[1] * a[2], a[2] * b[2])
RMul(a, b) == Norm(a[1] * b[1], a[2] * b[2])
RDiv(a, b) == Norm(a[1] * b[2], a[2] * b[1])
RLt(a, b) == a[1] * b[2] < b[1] * a[2]
RLe(a, b) == a[1] * b[2] <= b[1] * a[2]
\* a float stored into an integer array: truncation toward zero
Trunc(a) == IF a[1] >= 0 THEN R(a[1] \div a[2]) ELSE R(-((-a[1]) \div a[2]))

RECURSIVE SeqMin(_), SeqMax(_)
SeqMin(s) == IF Len(s) = 1 THEN s[1]
             ELSE LET m == SeqMin(Tail(s)) IN IF RLt(m, s[1]) THEN m ELSE s[1]
SeqMax(s) == IF Len(s) = 1 THEN s[1]
             ELSE LET m == SeqMax(Tail(s)) IN IF RLt(s[1], m) THEN m ELSE s[1]

\* ------------------------------------------------------------ the inputs
Vals == 0 .. MaxVal
\* a column: 1..MaxRecs values
Columns == UNION {[1 .. n -> Vals] : n \in 1 .. MaxRecs}
\* the columns of a data argument; their lengths may differ
RECURSIVE ListsOf(_, _)
ListsOf(m, cells) ==
    IF m = 0 THEN {<<>>}
    ELSE UNION {{<<col>> \o rest : rest \in ListsOf(m - 1, cells - Len(col))} :
                  col \in {c \in Columns : Len(c) + (m - 1) <= cells}}
ColumnLists == UNION {ListsOf(m, MaxCells) : m \in 1 .. MaxCols}
Rectangular(cols) == \A c \in 1 .. Len(cols) : Len(cols[c]) = Len(cols[1])

\* The data argument: a dict of columns, a 2-d or 1-d numpy array, a list of
\* columns, or an object that is none of these.
DataArgs ==
    [kind : {"dict", "list"}, ndim : {2}, cols : ColumnLists, isInt : BOOLEAN]
    \cup {d \in [kind : {"ndarray"}, ndim : {1, 2}, cols : ColumnLists, isInt : BOOLEAN] :
            /\ Rectangular(d.cols)
            /\ d.ndim = 1 => Len(d.cols) = 1}
    \cup [kind : {"other"}, ndim : {0}, cols : {<<>>}, isInt : {FALSE}]

\* labels = None, or one label per column (labels are numbered 1, 2, ...)
NoLabels == [given |-> FALSE, names |-> <<>>]
LabelArgs(d) == {NoLabels, [given |-> TRUE, names |-> [i \in 1 .. Len(d.cols) |-> i]]}

\* padding = 0 (a Python int) or the default 0.05 (a Python float)
Paddings == {[val |-> <<0, 1>>, isFloat |-> FALSE], [val |-> <<1, 20>>, isFloat |-> TRUE]}

\* ------------------------------------------------------------- parallel()
\* np.dstack(columns)[0]: the N x M matrix whose columns are the given ones
Dstack(cols) ==
    [r \in 1 .. Len(cols[1]) |-> [c \in 1 .. Len(cols) |-> R(cols[c][r])]]

Column(m, c) == [r \in 1 .. Len(m) |-> m[r][c]]

\* an exception leaves the function: e is its type, line the raising line
Raise(e, line) ==
    /\ pc' = "raised"
    /\ err' = <<e, line>>

\* lines 81-95: the container type decides how ys is built
P_ReadData ==
    /\ pc = "read"
    /\ \E d \in DataArgs : \E l \in LabelArgs(d) :
         IF d.kind = "other" THEN
             Raise("TypeError", 92) /\ UNCHANGED <<labels, ys, intDtype>>
         ELSE IF d.kind # "dict" /\ ~l.given THEN
             Raise("AssertionError", IF d.kind = "ndarray" THEN 86 ELSE 89)
             /\ UNCHANGED <<labels, ys, intDtype>>
         ELSE IF d.kind # "ndarray" /\ ~Rectangular(d.cols) THEN
             \* np.dstack refuses arrays of different lengths
             Raise("ValueError", IF d.kind = "dict" THEN 84 ELSE 90)
             /\ UNCHANGED <<labels, ys, intDtype>>
         ELSE IF d.kind = "ndarray" /\ d.ndim = 1 THEN
             \* N, nY = ys.shape with a 1-d shape
             Raise("ValueError", 95) /\ UNCHANGED <<labels, ys, intDtype>>
         ELSE
             /\ labels' = IF l.given THEN l.names ELSE [i \in 1 .. Len(d.cols) |-> i]
             /\ ys' = Dstack(d.cols)
             /\ intDtype' = d.isInt
             /\ pc' = "figure"
             /\ err' = err
    /\ UNCHANGED <<figs, data, padding, bezier, colors, ranges, rangesInt, dataRange, dys, zs, j, patches>>
    /\ UNCHANGED avars

\* line 110: abs(rmin - rmax) < 1e-12.  Every modelled number is a multiple of
\* 1/20 or coarser, so two of them are closer than 1e-12 only when equal.
Degenerate(rmin, rmax) == RSub(rmin, rmax) = R(0)

\* lines 108-113: widen a range whose ends coincide
GuardRange(r) ==
    IF Degenerate(r[1], r[2]) THEN <<RSub(r[1], R(1)), RAdd(r[2], R(1))>> ELSE r

\* The ranges argument: None (<<>>), or one (min, max) pair per column, given
\* as integers or as floats; min <= max in the calls modelled.
RangePairs == {<<R(0), R(0)>>, <<R(0), R(MaxVal)>>}
RangeArgs(nY) ==
    {[pairs |-> <<>>, isInt |-> FALSE]}
    \cup [pairs : [1 .. nY -> RangePairs], isInt : BOOLEAN]

\* lines 97-115: the figure is created, then the ranges are taken from the
\* data (np.stack keeps the dtype of ys) or from the argument (np.array)
P_Ranges ==
    /\ pc = "figure"
    /\ figs' = figs + 1
    /\ \E rg \in RangeArgs(Len(ys[1])) :
         LET nY == Len(ys[1])
             inferred == [c \in 1 .. nY |-> <<SeqMin(Column(ys, c)), SeqMax(Column(ys, c))>>]
         IN  IF rg.pairs = <<>> THEN
                 /\ dataRange' = inferred
                 /\ ranges' = [c \in 1 .. nY |-> GuardRange(inferred[c])]
                 /\ rangesInt' = intDtype
             ELSE
                 /\ dataRange' = <<>>
                 /\ ranges' = [c \in 1 .. nY |-> GuardRange(rg.pairs[c])]
                 /\ rangesInt' = rg.isInt
    /\ pc' = "pad"
    /\ UNCHANGED <<err, data, labels, padding, bezier, colors, ys, intDtype, dys, zs, j, patches>>
    /\ UNCHANGED avars

\* PadRange with the upper end left where it is
PadRangeLowerOnly(r, p) ==
    <<RSub(r[1], RMul(RSub(r[2], r[1]), p)), r[2]>>

\* lines 117-119: both ends move outwards by padding times the span
PadRange(r, p) ==
    LET d == RSub(r[2], r[1])
    IN  <<RSub(r[1], RMul(d, p)), RAdd(r[2], RMul(d, p))>>

\* line 125, one entry of a column k > 0
Rescale(y, rk, r0) ==
    RAdd(RMul(RDiv(RSub(y, rk[1]), RSub(rk[2], rk[1])), RSub(r0[2], r0[1])), r0[1])

\* storing into zs, which has the dtype of ys (line 123)
Store(z) == IF intDtype THEN Trunc(z) ELSE z

\* lines 117-125
P_Rescale ==
    /\ pc = "pad"
    /\ IF rangesInt /\ padding.isFloat THEN
           \* ymins -= dys * padding: a float64 result into an integer array
           Raise("UFuncTypeError", 118) /\ UNCHANGED <<ranges, dys, zs>>
       ELSE
           LET nY == Len(ys[1])
               padded == [i \in 1 .. nY |-> PadRange(ranges[i], padding.val)]
           IN  /\ ranges' = padded
               /\ dys' = [i \in 1 .. nY |-> RSub(padded[i][2], padded[i][1])]
               /\ zs' = [r \in 1 .. Len(ys) |-> [c \in 1 .. nY |->
                            IF c = 1 THEN ys[r][1]
                            ELSE Store(Rescale(ys[r][c], padded[c], padded[1]))]]
               /\ pc' = "axes"
               /\ err' = err
    /\ UNCHANGED <<figs, data, labels, padding, bezier, colors, ys, intDtype, rangesInt, dataRange, j, patches>>
    /\ UNCHANGED avars

\* np.linspace(start, stop, num, endpoint=True) for integers start, stop
Linspace(start, stop, num) ==
    [i \in 1 .. num |->
        IF num = 1 THEN R(start)
        ELSE RAdd(R(start), Norm((i - 1) * (stop - start), num - 1))]

\* np.repeat(s, 3)[1:-1]
Repeat3Inner(s) ==
    LET rep == [i \in 1 .. 3 * Len(s) |-> s[((i - 1) \div 3) + 1]]
    IN  SubSeq(rep, 2, Len(rep) - 1)

\* zip(a, b): as long as the shorter one
Zip(a, b) ==
    LET n == IF Len(a) < Len(b) THEN Len(a) ELSE Len(b)
    IN  [i \in 1 .. n |-> <<a[i], b[i]>>]

\* lines 156-168: the control vertices and the path codes of one record
BezierPath(row) ==
    LET verts == Zip(Linspace(0, Len(ys) - 1, Len(ys) * 3 - 2), Repeat3Inner(row))
    IN  [verts |-> verts,
         codes |-> [i \in 1 .. Len(verts) |-> IF i = 1 THEN "MOVETO" ELSE "CURVE4"]]

\* line 149: straight lines between the axes
LinePath(row) ==
    [verts |-> [i \in 1 .. Len(row) |-> <<R(i - 1), row[i]>>],
     codes |-> [i \in 1 .. Len(row) |-> IF i = 1 THEN "MOVETO" ELSE "LINETO"]]

\* lines 127-144: one axis per column, ticks and title
P_Axes ==
    /\ pc = "axes"
    /\ pc' = "draw"
    /\ j' = 0
    /\ UNCHANGED <<err, figs, data, labels, padding, bezier, colors, ys, intDtype, ranges,
                   rangesInt, dataRange, dys, zs, patches>>
    /\ UNCHANGED avars

\* lines 146-171: one record of the loop; both branches subscript colors
P_Draw ==
    /\ pc = "draw"
    /\ j < Len(ys)
    /\ IF ~colors THEN
           Raise("TypeError", IF bezier THEN 170 ELSE 149) /\ UNCHANGED <<j, patches>>
       ELSE
           /\ patches' = Append(patches, IF bezier THEN BezierPath(zs[j + 1])
                                         ELSE LinePath(zs[j + 1]))
           /\ j' = j + 1
           /\ pc' = pc
           /\ err' = err
    /\ UNCHANGED <<figs, data, labels, padding, bezier, colors, ys, intDtype, ranges,
                   rangesInt, dataRange, dys, zs>>
    /\ UNCHANGED avars

\* lines 173-174
P_Return ==
    /\ pc = "draw"
    /\ j = Len(ys)
    /\ pc' = "returned"
    /\ UNCHANGED <<err, figs, data, labels, pvars, avars>>

\* the locals of the function that is not running
AlignedIdle ==
    /\ yticksGiven = FALSE /\ sharelimits = FALSE /\ slider = FALSE
    /\ yArg = <<>> /\ xoffset = <<0, 1>> /\ datapos = <<>>
    /\ ymin = <<>> /\ ymax = <<>> /\ y0 = <<>>
    /\ plotdata = <<>> /\ vmin = <<>> /\ vmax = <<>>
    /\ sliderVal = <<>> /\ yq = <<>> /\ upd = 0

InitParallel ==
    /\ pc = "read"
    /\ err = <<>>
    /\ figs = 0
    /\ data = <<>>
    /\ labels = <<>>
    /\ padding \in Paddings
    /\ bezier \in BOOLEAN
    /\ colors \in BOOLEAN
    /\ ys = <<>>
    /\ intDtype = FALSE
    /\ ranges = <<>>
    /\ rangesInt = FALSE
    /\ dataRange = <<>>
    /\ dys = <<>>
    /\ zs = <<>>
    /\ j = 0
    /\ patches = <<>>
    /\ AlignedIdle

NextParallel == P_ReadData \/ P_Ranges \/ P_Rescale \/ P_Axes \/ P_Draw \/ P_Return

SpecParallel == InitParallel /\ [][NextParallel]_vars

\* ------------------------------------------------------ aligned_parallel()
\* labels = None, one label per column, or one label more than there are columns
LabelArgsA(d) ==
    {NoLabels,
     [given |-> TRUE, names |-> [n \in 1 .. Len(d.cols) |-> n]],
     [given |-> TRUE, names |-> [n \in 1 .. Len(d.cols) + 1 |-> n]]}

\* line 278: list(map(str, range(nData))), the labels "0", "1", ...
DefaultLabels(nData) == [n \in 1 .. nData |-> n - 1]

\* a panel of plotdata as lines 281 and 343-345 leave it; <<>> is a missing key
NewPanel(key, values) ==
    [key |-> key, values |-> values, min |-> <<>>, max |-> <<>>,
     ax |-> FALSE, hline |-> <<>>,
     text |-> [visible |-> FALSE, x |-> R(0), y |-> R(0), text |-> <<"NaN">>],
     xlim |-> <<>>, xticks |-> <<>>, ylim |-> <<>>, lines |-> FALSE]

ToRats(col) == [n \in 1 .. Len(col) |-> R(col[n])]

InitAligned ==
    /\ pc = "start"
    /\ err = <<>>
    /\ figs = 0
    /\ data = <<>>
    /\ labels = <<>>
    /\ padding = [val |-> <<1, 20>>, isFloat |-> TRUE] /\ bezier = TRUE /\ colors = FALSE
    /\ ys = <<>> /\ intDtype = FALSE /\ ranges = <<>> /\ rangesInt = FALSE
    /\ dataRange = <<>> /\ dys = <<>> /\ zs = <<>> /\ j = 0 /\ patches = <<>>
    \* the calls modelled: any layout options without the slider, or any
    \* read-out options with the default layout
    /\ \/ /\ yticksGiven \in BOOLEAN
          /\ sharelimits \in BOOLEAN
          /\ xoffset \in {<<0, 1>>, <<1, 2>>}
          /\ slider = FALSE
          /\ yArg = <<>>
       \/ /\ yticksGiven = TRUE
          /\ sharelimits = FALSE
          /\ xoffset = <<0, 1>>
          /\ slider \in BOOLEAN
          /\ yArg \in {<<>>, <<R(MaxVal)>>}
    /\ datapos = <<>>
    /\ ymin = <<>> /\ ymax = <<>> /\ y0 = <<>>
    /\ plotdata = <<>> /\ vmin = <<>> /\ vmax = <<>>
    /\ sliderVal = <<>> /\ yq = <<>> /\ upd = 0

\* lines 253-264: the figure is created first, then the position range is taken
A_Start ==
    /\ pc = "start"
    /\ figs' = figs + 1
    /\ \E dp \in Columns :
         /\ datapos' = ToRats(dp)
         /\ ymin' = SeqMin(ToRats(dp))
         /\ ymax' = SeqMax(ToRats(dp))
         /\ y0' = IF yArg = <<>>
                  THEN RMul(<<1, 2>>, RAdd(SeqMin(ToRats(dp)), SeqMax(ToRats(dp))))
                  ELSE yArg[1]
    /\ pc' = "read"
    /\ UNCHANGED <<err, data, labels, pvars, yticksGiven, sharelimits, slider, yArg,
                   xoffset, plotdata, vmin, vmax, sliderVal, yq, upd>>

Keys(n) == [k \in 1 .. n |-> k]
Range(f) == {f[x] : x \in DOMAIN f}

\* The data arguments modelled for aligned_parallel(): columns of one length,
\* which is the length of datapos unless every value is 0 (values of another
\* length are refused by line 423 before anything else looks at them).
AllZero(cols) == \A c \in 1 .. Len(cols) : \A r \in 1 .. Len(cols[c]) : cols[c][r] = 0
DataArgsA ==
    {d \in DataArgs :
        /\ ~d.isInt
        /\ Rectangular(d.cols)
        /\ d.cols # <<>> => (Len(d.cols[1]) = Len(datapos) \/ AllZero(d.cols))}

\* lines 272-281
A_ReadData ==
    /\ pc = "read"
    /\ \E d \in DataArgsA : \E l \in LabelArgsA(d) :
         LET nData == Len(d.cols)
             isDict == d.kind = "dict"
             isArr == d.kind = "ndarray"
             lbls == IF l.given THEN l.names
                     ELSE IF isDict THEN Keys(nData) ELSE DefaultLabels(nData)
             \* the keys of data after line 279
             keys == IF isDict THEN Keys(nData)
                     ELSE [n \in 1 .. nData |-> lbls[n]]
             col(lbl) == d.cols[CHOOSE n \in 1 .. nData : keys[n] = lbl]
             fail(e, line) == Raise(e, line) /\ UNCHANGED <<data, labels, plotdata>>
         IN  IF isArr /\ d.ndim = 1 THEN
                 \* data.shape[1] of a 1-d array
                 fail("IndexError", 276)
             ELSE IF ~isDict /\ ~isArr /\ ~l.given THEN
                 \* for lbl in labels with labels = None
                 fail("TypeError", 280)
             ELSE IF ~isDict /\ ~isArr THEN
                 \* data[lbl] with a list (or another object) and a label
                 fail("TypeError", 281)
             ELSE IF \E n \in 1 .. Len(lbls) : lbls[n] \notin Range(keys) THEN
                 fail("KeyError", 281)
             ELSE
                 /\ labels' = lbls
                 /\ data' = [keys |-> keys, cols |-> d.cols]
                 /\ plotdata' = [n \in 1 .. Len(lbls) |-> NewPanel(lbls[n], ToRats(col(lbls[n])))]
                 /\ pc' = "minmax"
                 /\ err' = err
    /\ UNCHANGED <<figs, pvars, yticksGiven, sharelimits, slider, yArg, xoffset, datapos,
                   ymin, ymax, y0, vmin, vmax, sliderVal, yq, upd>>

\* lines 284-294
A_MinMax ==
    /\ pc = "minmax"
    /\ LET mins == [n \in 1 .. Len(plotdata) |-> SeqMin(plotdata[n].values)]
           maxs == [n \in 1 .. Len(plotdata) |-> SeqMax(plotdata[n].values)]
       IN  /\ plotdata' = [n \in 1 .. Len(plotdata) |->
                             [plotdata[n] EXCEPT !.min = mins[n], !.max = maxs[n]]]
           /\ vmin' = SeqMin(mins)
           /\ vmax' = SeqMax(maxs)
    /\ pc' = "axes"
    /\ UNCHANGED <<err, figs, data, labels, pvars, yticksGiven, sharelimits, slider, yArg,
                   xoffset, datapos, ymin, ymax, y0, sliderVal, yq, upd>>

\* lines 297-345: the layout and one axes per series, with its marker line at
\* y0 and its hidden label; line 335 subscripts yticks
A_CreateAxes ==
    /\ pc = "axes"
    /\ IF ~yticksGiven THEN
           Raise("TypeError", 335) /\ UNCHANGED plotdata
       ELSE
           /\ plotdata' = [n \in 1 .. Len(plotdata) |->
                             [plotdata[n] EXCEPT !.ax = TRUE, !.hline = <<y0>>]]
           /\ pc' = "slider"
           /\ err' = err
    /\ UNCHANGED <<figs, data, labels, pvars, yticksGiven, sharelimits, slider, yArg, xoffset,
                   datapos, ymin, ymax, y0, vmin, vmax, sliderVal, yq, upd>>

\* Slider.__init__ keeps valinit within [valmin, valmax]
Clip(v, lo, hi) == IF RLt(v, lo) THEN lo ELSE IF RLt(hi, v) THEN hi ELSE v

\* lines 348-363: the slider starts at valinit = 0.0
A_CreateSlider ==
    /\ pc = "slider"
    /\ sliderVal' = IF slider THEN <<Clip(R(0), ymin, ymax)>> ELSE <<>>
    /\ pc' = "plot"
    /\ UNCHANGED <<err, figs, data, labels, pvars, yticksGiven, sharelimits, slider, yArg,
                   xoffset, datapos, ymin, ymax, y0, plotdata, vmin, vmax, yq, upd>>

\* lines 395-402, _set_xlim: abs(vmin - vmax) > 1e-7 is "differ" for the
\* modelled numbers; the limits stay unset (<<>>) otherwise
SetXlim(panel, lo, hi) ==
    LET voffset == RMul(RSub(hi, lo), xoffset)
    IN  [panel EXCEPT
            !.xlim = IF lo # hi THEN <<RSub(lo, voffset), RAdd(hi, voffset)>> ELSE @,
            !.xticks = <<lo, hi>>]

\* lines 404-406, _set_ylim, with yoffset at its default 0.0
SetYlim(panel, lo, hi) == [panel EXCEPT !.ylim = <<lo, hi>>]

\* SetLimits ignoring sharelimits
SetLimitsOwn(panel) ==
    SetYlim(SetXlim(panel, panel.min, panel.max), ymin, ymax)

\* lines 410-416: the limits of one panel
SetLimits(panel) ==
    SetYlim(IF sharelimits THEN SetXlim(panel, vmin, vmax)
            ELSE SetXlim(panel, panel.min, panel.max),
            ymin, ymax)

\* the first panel whose values axis.plot (line 423) refuses: values and
\* positions of different lengths; 0 when there is none
FirstMismatch ==
    LET bad == {n \in 1 .. Len(plotdata) : Len(plotdata[n].values) # Len(datapos)}
    IN  IF bad = {} THEN 0 ELSE CHOOSE n \in bad : \A m \in bad : n <= m

\* lines 409-424: limits, title and curve of every panel, in order
A_PlotAxes ==
    /\ pc = "plot"
    /\ LET bad == FirstMismatch
       IN  IF bad # 0 THEN
               /\ Raise("ValueError", 423)
               /\ plotdata' = [n \in 1 .. Len(plotdata) |->
                                 IF n < bad THEN [SetLimits(plotdata[n]) EXCEPT !.lines = TRUE]
                                 ELSE IF n = bad THEN SetLimits(plotdata[n])
                                 ELSE plotdata[n]]
           ELSE
               /\ plotdata' = [n \in 1 .. Len(plotdata) |->
                                 [SetLimits(plotdata[n]) EXCEPT !.lines = TRUE]]
               /\ pc' = "connect"
               /\ err' = err
    /\ UNCHANGED <<figs, data, labels, pvars, yticksGiven, sharelimits, slider, yArg, xoffset,
                   datapos, ymin, ymax, y0, vmin, vmax, sliderVal, yq, upd>>

\* lines 426-430: the callback is connected and _set_yval(y0) is entered
A_Connect ==
    /\ pc = "connect"
    /\ yq' = y0
    /\ upd' = 0
    /\ pc' = "set_yval"
    /\ UNCHANGED <<err, figs, data, labels, pvars, yticksGiven, sharelimits, slider, yArg,
                   xoffset, datapos, ymin, ymax, y0, plotdata, vmin, vmax, sliderVal>>

\* np.interp(x, xp, fp) for a scalar x: the index search of numpy for at most
\* four sample points (a linear scan), which is also what its bisection
\* returns on increasing xp; left and right default to fp[0] and fp[-1]
RECURSIVE Scan(_, _, _)
Scan(x, xp, n) == IF n <= Len(xp) /\ RLe(xp[n], x) THEN Scan(x, xp, n + 1) ELSE n

SearchIndex(x, xp) ==
    IF RLt(xp[Len(xp)], x) THEN Len(xp) + 1
    ELSE IF RLt(x, xp[1]) THEN 0
    ELSE Scan(x, xp, 2) - 1

Interp(x, xp, fp) ==
    LET n == Len(xp)
        k == SearchIndex(x, xp)
    IN  IF n = 1 THEN fp[1]
        ELSE IF k = 0 THEN fp[1]
        ELSE IF k = n + 1 THEN fp[n]
        ELSE IF k = n THEN fp[n]
        ELSE IF xp[k] = x THEN fp[k]
        ELSE RAdd(RMul(RDiv(RSub(fp[k + 1], fp[k]), RSub(xp[k + 1], xp[k])),
                       RSub(x, xp[k])),
                  fp[k])

\* _approx_at_y with the two coordinates of the curve exchanged
ApproxAtYSwapped(yv, panel) == Interp(yv, panel.values, datapos)

\* lines 370-374, _approx_at_y: the curve of a panel is (values, datapos)
ApproxAtY(yv, panel) == Interp(yv, datapos, panel.values)

\* lines 378-387: the marker line and the label of one panel
UpdatePanel(panel, yv) ==
    [panel EXCEPT
        !.hline = IF @ # <<>> THEN <<yv>> ELSE @,
        !.text = [visible |-> TRUE, x |-> ApproxAtY(yv, panel), y |-> yv,
                  text |-> <<"str_sig", 4, ApproxAtY(yv, panel)>>]]

\* lines 377-387: one iteration of the loop of _set_yval
A_SetYvalPanel ==
    /\ pc = "set_yval"
    /\ upd < Len(plotdata)
    /\ plotdata' = [plotdata EXCEPT ![upd + 1] = UpdatePanel(plotdata[upd + 1], yq)]
    /\ upd' = upd + 1
    /\ UNCHANGED <<cvars, pvars, yticksGiven, sharelimits, slider, yArg, xoffset, datapos,
                   ymin, ymax, y0, vmin, vmax, sliderVal, yq>>

\* the loop of _set_yval left after its first iteration
LoopDoneEarly == upd >= 1

\* the loop of _set_yval is left after the last panel
LoopDone == upd = Len(plotdata)

\* line 388, fig.canvas.draw_idle(), and the return to the caller: line 432
\* or the event loop
A_DrawIdle ==
    /\ pc = "set_yval"
    /\ LoopDone
    /\ pc' = "idle"
    /\ UNCHANGED <<err, figs, data, labels, pvars, yticksGiven, sharelimits, slider, yArg,
                   xoffset, datapos, ymin, ymax, y0, plotdata, vmin, vmax, sliderVal, yq, upd>>

\* the values the user moves the slider to: within [valmin, valmax]
SliderVals == {R(v) : v \in {w \in Vals : RLe(ymin, R(w)) /\ RLe(R(w), ymax)}}

\* lines 390-393 and 428: a value-changed event of the slider calls
\* _update_slider(val), which enters _set_yval(val)
A_SliderChanged ==
    /\ pc = "idle"
    /\ sliderVal # <<>>
    /\ \E v \in SliderVals :
         /\ sliderVal' = <<v>>
         /\ yq' = v
    /\ upd' = 0
    /\ pc' = "set_yval"
    /\ UNCHANGED <<err, figs, data, labels, pvars, yticksGiven, sharelimits, slider, yArg,
                   xoffset, datapos, ymin, ymax, y0, plotdata, vmin, vmax>>

NextAligned ==
    \/ A_Start \/ A_ReadData \/ A_MinMax \/ A_CreateAxes \/ A_CreateSlider
    \/ A_PlotAxes \/ A_Connect \/ A_SetYvalPanel \/ A_DrawIdle
    \/ A_SliderChanged

SpecAligned == InitAligned /\ [][NextAligned]_vars

\* ------------------------------------------------------------- the claims
\* the value a record shows at control vertex n (1-based) when the first and
\* the last value appear twice and every other value three times
RepeatedValue(row, n) == row[(n \div 3) + 1]

\* C1: in Bezier mode, with M >= 2 axes and any number of records, every
\* record's control-vertex sequence has exactly 3M-2 vertices, with
\* x-coordinates 0, 1/3, 2/3, ..., M-1 and y-coordinates the record's rescaled
\* values, the first and last twice and every interior value three times.
C1_BezierVertices ==
    (bezier /\ ys # <<>> /\ Len(ys[1]) >= 2) =>
        \A k \in 1 .. Len(patches) :
            LET v == patches[k].verts
            IN  /\ Len(v) = 3 * Len(ys[1]) - 2
                /\ \A n \in 1 .. Len(v) :
                       v[n] = <<Norm(n - 1, 3), RepeatedValue(zs[k], n)>>

Between(lo, x, hi) == RLe(lo, x) /\ RLe(x, hi)

\* C2: the rescaled matrix keeps column 0 and maps every column k > 0 by
\* z = (y - min_k) / (max_k - min_k) * span_0 + min_0 over the padded ranges,
\* so a value inside column k's padded range lands inside column 0's.
C2_AffineRescale ==
    zs # <<>> =>
        \A r \in 1 .. Len(ys) : \A c \in 1 .. Len(ys[1]) :
            IF c = 1 THEN zs[r][c] = ys[r][c]
            ELSE /\ RMul(RSub(zs[r][c], ranges[1][1]), dys[c])
                        = RMul(RSub(ys[r][c], ranges[c][1]), dys[1])
                 /\ Between(ranges[c][1], ys[r][c], ranges[c][2])
                        => Between(ranges[1][1], zs[r][c], ranges[1][2])

\* the ranges were inferred from the data and have been padded
PaddedInferred == dys # <<>> /\ dataRange # <<>>

\* C3 as stated: with inferred ranges, min_padded < data_min <= data_max <
\* max_padded whenever data_min differs from data_max, and the padded span is
\* at least 2 whenever they are equal.
C3_StrictlyInside ==
    PaddedInferred =>
        \A c \in 1 .. Len(ranges) :
            LET lo == dataRange[c][1]
                hi == dataRange[c][2]
            IN  /\ lo # hi => /\ RLt(ranges[c][1], lo)
                              /\ RLe(lo, hi)
                              /\ RLt(hi, ranges[c][2])
                /\ lo = hi => RLe(R(2), RSub(ranges[c][2], ranges[c][1]))

\* C3 amended: with inferred ranges and padding >= 0, min_padded <= data_min
\* <= data_max <= max_padded; both outer inequalities are strict when padding
\* > 0 or data_min = data_max; the padded span is at least 2 when data_min =
\* data_max.
C3_PaddedRange ==
    PaddedInferred =>
        \A c \in 1 .. Len(ranges) :
            LET lo == dataRange[c][1]
                hi == dataRange[c][2]
            IN  /\ RLe(ranges[c][1], lo) /\ RLe(lo, hi) /\ RLe(hi, ranges[c][2])
                /\ (RLt(R(0), padding.val) \/ lo = hi)
                       => RLt(ranges[c][1], lo) /\ RLt(hi, ranges[c][2])
                /\ lo = hi => RLe(R(2), RSub(ranges[c][2], ranges[c][1]))

\* C3's case: padded inferred ranges, padding > 0, one column that varies and
\* one that does not
C3_Witness ==
    /\ PaddedInferred
    /\ RLt(R(0), padding.val)
    /\ \E c \in 1 .. Len(ranges) : dataRange[c][1] # dataRange[c][2]
    /\ \E c \in 1 .. Len(ranges) : dataRange[c][1] = dataRange[c][2]

\* the limits _set_xlim was called for on panel n have been set
LimitsSet(n) == plotdata[n].xticks # <<>>

GlobalMin == SeqMin([n \in 1 .. Len(plotdata) |-> SeqMin(plotdata[n].values)])
GlobalMax == SeqMax([n \in 1 .. Len(plotdata) |-> SeqMax(plotdata[n].values)])

\* C4: with sharelimits every panel's horizontal axis uses the global (min,
\* max) over all panels and its ticks are exactly that pair; without it every
\* panel uses the min and max of its own series.  The axis limits are the
\* range used, widened on both sides by xoffset times its span, and are left
\* alone when the range is a single point.
C4_SharedLimits ==
    \A n \in 1 .. Len(plotdata) :
        LimitsSet(n) =>
            LET lo == IF sharelimits THEN GlobalMin ELSE SeqMin(plotdata[n].values)
                hi == IF sharelimits THEN GlobalMax ELSE SeqMax(plotdata[n].values)
                margin == RMul(RSub(hi, lo), xoffset)
            IN  /\ plotdata[n].xticks = <<lo, hi>>
                /\ plotdata[n].xlim = IF lo # hi
                                      THEN <<RSub(lo, margin), RAdd(hi, margin)>>
                                      ELSE <<>>

\* C4's case: shared limits on two panels whose own ranges differ from the
\* global one, and the figure is returned
C4_Witness ==
    /\ pc = "idle"
    /\ sharelimits
    /\ Len(plotdata) >= 2
    /\ \A n \in 1 .. 2 : LimitsSet(n) /\ plotdata[n].xticks # <<plotdata[n].min, plotdata[n].max>>

\* every panel shows the position yv: its marker line and its label
AllPanelsAt(yv) ==
    \A n \in 1 .. Len(plotdata) :
        /\ plotdata[n].hline = <<yv>>
        /\ plotdata[n].text.visible
        /\ plotdata[n].text.y = yv

\* the redraw request of _set_yval is about to be issued
AtDrawIdle == pc = "set_yval" /\ LoopDone

\* C5: when _set_yval issues its redraw request, and whenever control is back
\* in the event loop (where the backend draws), the marker line and the label
\* of every panel show the query position of the last position change.
C5_AllPanelsBeforeRedraw == (AtDrawIdle \/ pc = "idle") => AllPanelsAt(yq)

\* C5's case: the redraw request of a slider event on two panels or more
C5_Witness ==
    /\ AtDrawIdle
    /\ Len(plotdata) >= 2
    /\ yq # y0

StrictlyIncreasing(s) == \A n \in 1 .. Len(s) - 1 : RLt(s[n], s[n + 1])
StrictlyDecreasing(s) == \A n \in 1 .. Len(s) - 1 : RLt(s[n + 1], s[n])

\* the read-out of every panel at a query position that is a data position is
\* the value plotted there
ReadoutExact ==
    \A n \in 1 .. Len(plotdata) : \A k \in 1 .. Len(datapos) :
        datapos[k] = yq => plotdata[n].text.x = plotdata[n].values[k]

\* C8 as stated: for positions monotonic in either direction, the read-out at
\* a data position is that data point's value.
C8_ReadoutMonotonic ==
    (pc = "idle" /\ (StrictlyIncreasing(datapos) \/ StrictlyDecreasing(datapos)))
        => ReadoutExact

\* C8 amended: for strictly increasing positions, the read-out at a data
\* position is that data point's value.
C8_ReadoutIncreasing == (pc = "idle" /\ StrictlyIncreasing(datapos)) => ReadoutExact

\* C8's case: a query at the second of two increasing positions, where the
\* panel's values differ
C8_Witness ==
    /\ pc = "idle"
    /\ StrictlyIncreasing(datapos)
    /\ Len(datapos) >= 2
    /\ yq = datapos[2]
    /\ plotdata[1].values[1] # plotdata[1].values[2]

\* the exceptions that report a malformed data, labels or datapos argument
MalformedInputErrors ==
    {<<"TypeError", 92>>, <<"ValueError", 84>>, <<"ValueError", 90>>, <<"ValueError", 95>>,
     <<"AssertionError", 86>>, <<"AssertionError", 89>>,
     <<"IndexError", 276>>, <<"TypeError", 280>>, <<"TypeError", 281>>,
     <<"KeyError", 281>>, <<"ValueError", 423>>}

\* C6: when a call fails because of malformed input, no figure has been
\* created at the moment the error is raised.
C6_FailsBeforeFigure == (pc = "raised" /\ err \in MalformedInputErrors) => figs = 0

\* C7: array data without labels makes the call fail; the labels in use are
\* never the generated "0", "1", ...
C7_NoDefaultLabels == labels # <<>> => labels # DefaultLabels(Len(labels))

\* C9: a call with valid data and datapos and yticks omitted completes: when
\* it raises, the error reports a malformed argument.
C9_YticksOptional == (pc = "raised" /\ ~yticksGiven) => err \in MalformedInputErrors

\* C10: with the slider enabled, whenever control is in the event loop the
\* slider's value is the query position every panel shows.
C10_SliderShowsPosition ==
    (pc = "idle" /\ slider) => (sliderVal = <<yq>> /\ AllPanelsAt(sliderVal[1]))

====
